---- MODULE Spec2Model ----
(***************************************************************************)
(* A model of dbnmodel/DBN.py: construction of the DBN (DBN.__init__),     *)
(* the layer-wise pretraining loop and the fine-tuning loop with early     *)
(* stopping of DbnClassifier.train_model, its final report, and the        *)
(* one-hot to integer label conversion bin_to_int.                         *)
(*                                                                         *)
(* Numeric tensors are abstracted to storage cells: a cell is an index     *)
(* into `store`, and the value kept there is the number of updates the     *)
(* tensor has received.  Python floats that the control flow compares      *)
(* (validation losses) are records [kind, v]: a number in thousandths,     *)
(* +infinity, or NaN, compared the way IEEE floats compare.                *)
(***************************************************************************)
EXTENDS Integers, Sequences, FiniteSets, TLC

(* ------------------------------ bounds -------------------------------- *)
MaxLayers == 2

MaxPreEpochs == 2

MaxEpochs == 7

MaxTrainBatches == 2

MaxValidBatches == 1

MaxRows == 2

MaxCols == 3

(* ------------------------- program constants -------------------------- *)
PatienceFactor == 4

PatienceIncrease == 2

ThresholdNum == 995

ThresholdDen == 1000

Unbound == -1

(* Mean validation errors the validation set may produce, in thousandths. *)
Losses == {0, 996, 1000}

OutDirs == {"out"}

OutFileAppends == {"run"}

(* ------------------------------ floats -------------------------------- *)
Num(x) == [kind |-> "num", v |-> x]

Inf == [kind |-> "inf", v |-> 0]

NaN == [kind |-> "nan", v |-> 0]

(* a < b on Python floats: false as soon as either side is NaN *)
Less(a, b) ==
    /\ a.kind = "num"
    /\ \/ b.kind = "inf"
       \/ b.kind = "num" /\ a.v < b.v

(* a < b * improvement_threshold; inf * 0.995 = inf, nan * 0.995 = nan *)
LessScaled(a, b) ==
    /\ a.kind = "num"
    /\ \/ b.kind = "inf"
       \/ b.kind = "num" /\ a.v * ThresholdDen < b.v * ThresholdNum

Max(a, b) == IF a >= b THEN a ELSE b

Min(a, b) == IF a <= b THEN a ELSE b

VARIABLES
    config,               \* the hyperparameters and dataset sizes of the run
    pc,                   \* position in build_model / train_model
    sigmoid_layers,       \* DBN.sigmoid_layers: [W, b] cell references
    rbm_layers,           \* DBN.rbm_layers: [W, hbias, vbias] cell references
    logLayer,             \* DBN.logLayer: [W, b] cell references (0: not built)
    params,               \* DBN.params: sequence of cell references
    store,                \* the storage cells: update count of each tensor
    i,                    \* layer loop index (DBN.__init__, pretraining)
    epoch_j,              \* epoch counter (pretraining, then fine-tuning)
    batch_index,          \* pretraining minibatch index
    minibatch_index,      \* fine-tuning minibatch index
    iter,                 \* global fine-tuning iteration
    patience,
    validation_frequency,
    best_validation_loss,
    best_iter,
    done_looping,
    pretrain_log,         \* history: <<layer, epoch, batch>> of every pretraining step
    validation_log,       \* history: [iter, loss] of every validation check
    ft_steps,             \* history: number of train_fn calls
    raised,               \* the exception that ended the run, or "none"
    ret_fname,            \* returned filename, as its string pieces
    ret_loss,             \* returned best validation loss
    mat,                  \* bin_to_int: the one-hot label matrix
    res                   \* bin_to_int: the converted labels

vars == <<config, pc, sigmoid_layers, rbm_layers, logLayer, params, store, i,
          epoch_j, batch_index, minibatch_index, iter, patience,
          validation_frequency, best_validation_loss, best_iter, done_looping,
          pretrain_log, validation_log, ft_steps, raised, ret_fname, ret_loss,
          mat, res>>

dbnVars == <<sigmoid_layers, rbm_layers, logLayer, params>>

ftVars == <<minibatch_index, iter, patience, validation_frequency,
            best_validation_loss, best_iter, done_looping>>

outVars == <<raised, ret_fname, ret_loss>>

labelVars == <<mat, res>>

Configs ==
    [n_layers : 0..MaxLayers,
     pre_max_epochs : 0..MaxPreEpochs,
     max_epochs : 0..MaxEpochs,
     n_train_batches : 0..MaxTrainBatches,
     n_valid_batches : 0..MaxValidBatches]

(* Everything train_model and build_model touch, before either has run. *)
Blank ==
    /\ sigmoid_layers = <<>>
    /\ rbm_layers = <<>>
    /\ logLayer = [W |-> 0, b |-> 0]
    /\ params = <<>>
    /\ store = <<>>
    /\ i = 0
    /\ epoch_j = 0
    /\ batch_index = 0
    /\ minibatch_index = 0
    /\ iter = 0
    /\ patience = 0
    /\ validation_frequency = 0
    /\ best_validation_loss = Inf
    /\ best_iter = Unbound
    /\ done_looping = FALSE
    /\ pretrain_log = <<>>
    /\ validation_log = <<>>
    /\ ft_steps = 0
    /\ raised = "none"
    /\ ret_fname = <<>>
    /\ ret_loss = Inf
    /\ res = <<>>

Init ==
    /\ config \in Configs
    /\ pc = "build"
    /\ mat = <<>>
    /\ Blank

(* ------------------------- DBN construction --------------------------- *)

(* HiddenLayer(...): allocates its weight matrix, then its bias. *)
HiddenLayerInit(st) ==
    [layer |-> [W |-> Len(st) + 1, b |-> Len(st) + 2],
     store |-> st \o <<0, 0>>]

HiddenLayerParams(layer) == <<layer.W, layer.b>>

(* RBM(..., W, hbias): a tensor that is passed in is used as it is; one    *)
(* that is not (0 stands for None) is allocated; vbias is always its own.  *)
RBMInit(st, W, hbias) ==
    LET w == IF W = 0 THEN Len(st) + 1 ELSE W
        s1 == IF W = 0 THEN Append(st, 0) ELSE st
        h == IF hbias = 0 THEN Len(s1) + 1 ELSE hbias
        s2 == IF hbias = 0 THEN Append(s1, 0) ELSE s1
    IN  [layer |-> [W |-> w, hbias |-> h, vbias |-> Len(s2) + 1],
         store |-> Append(s2, 0)]

RBMParams(rbm) == <<rbm.W, rbm.hbias, rbm.vbias>>

(* LogisticRegression(...): allocates its weight matrix, then its bias. *)
LogisticRegressionInit(st) ==
    [layer |-> [W |-> Len(st) + 1, b |-> Len(st) + 2],
     store |-> st \o <<0, 0>>]

RbmArgsOwn(sigmoid_layer) == [W |-> 0, hbias |-> 0]

(* the W= and hbias= arguments DBN.__init__ hands to RBM *)
RbmArgs(sigmoid_layer) == [W |-> sigmoid_layer.W, hbias |-> sigmoid_layer.b]

LayerParamsOfRbm(sigmoid_layer, rbm_layer) == RBMParams(rbm_layer)

(* what DBN.__init__ appends to self.params for one hidden layer *)
LayerParams(sigmoid_layer, rbm_layer) == HiddenLayerParams(sigmoid_layer)

(* assert self.n_layers > 0 *)
BuildAssertFail ==
    /\ pc = "build"
    /\ config.n_layers = 0
    /\ raised' = "AssertionError"
    /\ pc' = "done"
    /\ UNCHANGED <<config, dbnVars, store, i, epoch_j, batch_index, ftVars,
                   pretrain_log, validation_log, ft_steps, ret_fname, ret_loss,
                   labelVars>>

(* one pass of the loop `for i in xrange(self.n_layers)` of DBN.__init__ *)
BuildLayer ==
    /\ pc = "build"
    /\ config.n_layers > 0
    /\ i < config.n_layers
    /\ LET hl == HiddenLayerInit(store)
           args == RbmArgs(hl.layer)
           rbm == RBMInit(hl.store, args.W, args.hbias)
       IN  /\ sigmoid_layers' = Append(sigmoid_layers, hl.layer)
           /\ params' = params \o LayerParams(hl.layer, rbm.layer)
           /\ rbm_layers' = Append(rbm_layers, rbm.layer)
           /\ store' = rbm.store
    /\ i' = i + 1
    /\ UNCHANGED <<config, pc, logLayer, epoch_j, batch_index, ftVars,
                   pretrain_log, validation_log, ft_steps, outVars, labelVars>>

(* the logistic layer on top; then train_model starts its pretraining loops *)
BuildLogLayer ==
    /\ pc = "build"
    /\ config.n_layers > 0
    /\ i = config.n_layers
    /\ LET lr == LogisticRegressionInit(store)
       IN  /\ logLayer' = lr.layer
           /\ params' = params \o <<lr.layer.W, lr.layer.b>>
           /\ store' = lr.store
    /\ pc' = "pretrain"
    /\ i' = 0
    /\ epoch_j' = 0
    /\ batch_index' = 0
    /\ UNCHANGED <<config, sigmoid_layers, rbm_layers, ftVars, pretrain_log,
                   validation_log, ft_steps, outVars, labelVars>>

(* ---------------------------- pretraining ----------------------------- *)

Bump(st, cells) ==
    [k \in 1..Len(st) |-> IF k \in cells THEN st[k] + 1 ELSE st[k]]

(* the tensors one CD-k step of an RBM updates *)
RBMUpdateTargets(rbm) == {rbm.W, rbm.hbias, rbm.vbias}

PretrainLayerReversed(k) == config.n_layers - 1 - k

(* pretraining_fns[k] is built from self.rbm_layers[k] *)
PretrainLayerOf(k) == k

(* pretraining_fns[i](index=batch_index, lr=pretrain_lr) *)
PretrainStep ==
    /\ pc = "pretrain"
    /\ i < config.n_layers
    /\ epoch_j < config.pre_max_epochs
    /\ batch_index < config.n_train_batches
    /\ LET l == PretrainLayerOf(i)
       IN  /\ store' = Bump(store, RBMUpdateTargets(rbm_layers[l + 1]))
           /\ pretrain_log' = Append(pretrain_log, <<l, epoch_j, batch_index>>)
    /\ batch_index' = batch_index + 1
    /\ UNCHANGED <<config, pc, dbnVars, i, epoch_j, ftVars, validation_log,
                   ft_steps, outVars, labelVars>>

(* the minibatch loop of one epoch is exhausted: report the mean cost *)
PretrainEpochEnd ==
    /\ pc = "pretrain"
    /\ i < config.n_layers
    /\ epoch_j < config.pre_max_epochs
    /\ batch_index = config.n_train_batches
    /\ epoch_j' = epoch_j + 1
    /\ batch_index' = 0
    /\ UNCHANGED <<config, pc, dbnVars, store, i, ftVars, pretrain_log,
                   validation_log, ft_steps, outVars, labelVars>>

(* the epoch loop of one layer is exhausted: on to the next layer *)
PretrainLayerEnd ==
    /\ pc = "pretrain"
    /\ i < config.n_layers
    /\ epoch_j = config.pre_max_epochs
    /\ i' = i + 1
    /\ epoch_j' = 0
    /\ batch_index' = 0
    /\ UNCHANGED <<config, pc, dbnVars, store, ftVars, pretrain_log,
                   validation_log, ft_steps, outVars, labelVars>>

(* ---------------------------- fine-tuning ----------------------------- *)

InitialPatienceShort(n) == 2 * n

InitialPatience(n) == PatienceFactor * n

(* min(n_train_batches, patience / 2), Python 2 integer division *)
ValidationFrequency(n, p) == Min(n, p \div 2)

(* the layer loop is exhausted: build the fine-tune functions and set the *)
(* early-stopping parameters                                              *)
FinetuneSetup ==
    /\ pc = "pretrain"
    /\ i = config.n_layers
    /\ patience' = InitialPatience(config.n_train_batches)
    /\ validation_frequency' =
           ValidationFrequency(config.n_train_batches,
                               InitialPatience(config.n_train_batches))
    /\ best_validation_loss' = Inf
    /\ done_looping' = FALSE
    /\ epoch_j' = 0
    /\ pc' = "ft_while"
    /\ UNCHANGED <<config, dbnVars, store, i, batch_index, minibatch_index,
                   iter, best_iter, pretrain_log, validation_log, ft_steps,
                   outVars, labelVars>>

(* while (epoch_j < epoch) and (not done_looping): epoch_j = epoch_j + 1, *)
(* and the minibatch loop is entered (it is empty when there is no batch) *)
FinetuneEpochBegin ==
    /\ pc = "ft_while"
    /\ epoch_j < config.max_epochs
    /\ ~done_looping
    /\ epoch_j' = epoch_j + 1
    /\ minibatch_index' = 0
    /\ pc' = IF config.n_train_batches > 0 THEN "ft_for" ELSE "ft_while"
    /\ UNCHANGED <<config, dbnVars, store, i, batch_index, iter, patience,
                   validation_frequency, best_validation_loss, best_iter,
                   done_looping, pretrain_log, validation_log, ft_steps,
                   outVars, labelVars>>

IterOf(e, n, m) == (e - 1) * n + m

IsValidationStep(it, vf) == (it + 1) % vf = 0

(* numpy.mean(validate_model()): NaN over an empty list of batches *)
ValidationLosses ==
    IF config.n_valid_batches = 0 THEN {NaN} ELSE {Num(l) : l \in Losses}

IsBestOrEqual(this, best) == Less(this, best) \/ this = best

(* this_validation_loss < best_validation_loss *)
IsBest(this, best) == Less(this, best)

(* this_validation_loss < best_validation_loss * improvement_threshold *)
IsSignificant(this, best) == LessScaled(this, best)

ExtendPatienceNoMax(p, it) == it * PatienceIncrease

(* max(patience, iter * patience_increase) *)
ExtendPatience(p, it) == Max(p, it * PatienceIncrease)

ShouldStopStrict(p, it) == p < it

(* patience <= iter *)
ShouldStop(p, it) == p <= it

(* The early-stopping record after the body of `if (iter + 1) %            *)
(* validation_frequency == 0` has run with mean validation loss `this`.    *)
AfterValidation(this, it) ==
    IF IsBest(this, best_validation_loss)
    THEN [patience |-> IF IsSignificant(this, best_validation_loss)
                       THEN ExtendPatience(patience, it)
                       ELSE patience,
          best |-> this,
          best_iter |-> it]
    ELSE [patience |-> patience,
          best |-> best_validation_loss,
          best_iter |-> best_iter]

(* the end of one pass of the minibatch loop: break, next batch, or the   *)
(* loop is exhausted                                                      *)
FinetuneAdvance(p, it) ==
    IF ShouldStop(p, it)
    THEN /\ done_looping' = TRUE
         /\ pc' = "ft_while"
         /\ minibatch_index' = minibatch_index
    ELSE /\ done_looping' = done_looping
         /\ minibatch_index' = minibatch_index + 1
         /\ pc' = IF minibatch_index + 1 < config.n_train_batches
                  THEN "ft_for" ELSE "ft_while"

(* one pass of `for minibatch_index in xrange(n_train_batches)`: a        *)
(* train_fn call on every parameter of DBN.params, a validation check     *)
(* when one is due, and the patience test                                 *)
FinetuneStep ==
    /\ pc = "ft_for"
    /\ LET it == IterOf(epoch_j, config.n_train_batches, minibatch_index)
       IN  /\ iter' = it
           /\ store' = Bump(store, {params[k] : k \in 1..Len(params)})
           /\ ft_steps' = ft_steps + 1
           /\ IF IsValidationStep(it, validation_frequency)
              THEN \E this \in ValidationLosses :
                     LET r == AfterValidation(this, it)
                     IN  /\ validation_log' =
                               Append(validation_log, [iter |-> it, loss |-> this])
                         /\ patience' = r.patience
                         /\ best_validation_loss' = r.best
                         /\ best_iter' = r.best_iter
                         /\ FinetuneAdvance(r.patience, it)
              ELSE /\ UNCHANGED <<validation_log, patience,
                                  best_validation_loss, best_iter>>
                   /\ FinetuneAdvance(patience, it)
    /\ UNCHANGED <<config, dbnVars, i, epoch_j, batch_index,
                   validation_frequency, pretrain_log, outVars, labelVars>>

(* the while condition is false: leave the loop *)
FinetuneExit ==
    /\ pc = "ft_while"
    /\ (epoch_j >= config.max_epochs \/ done_looping)
    /\ pc' = "report"
    /\ UNCHANGED <<config, dbnVars, store, i, epoch_j, batch_index, ftVars,
                   pretrain_log, validation_log, ft_steps, outVars, labelVars>>

(* ------------------------------ report -------------------------------- *)

(* path.join(out_dir, 'DBN_weights_' + out_file_append +                  *)
(* '_{val_loss:.2f}.hdf5'), as its pieces: the template is never formatted *)
FileName(out_dir, out_file_append) ==
    <<out_dir, "/", "DBN_weights_", out_file_append, "_", "{val_loss:.2f}",
      ".hdf5">>

(* The final print reads best_iter, which is a local never bound when no  *)
(* validation check recorded a best; otherwise the name and loss return.  *)
Report ==
    /\ pc = "report"
    /\ pc' = "done"
    /\ IF best_iter = Unbound
       THEN /\ raised' = "UnboundLocalError"
            /\ UNCHANGED <<ret_fname, ret_loss>>
       ELSE /\ \E d \in OutDirs, a \in OutFileAppends :
                  ret_fname' = FileName(d, a)
            /\ ret_loss' = best_validation_loss
            /\ raised' = raised
    /\ UNCHANGED <<config, dbnVars, store, i, epoch_j, batch_index, ftVars,
                   pretrain_log, validation_log, ft_steps, labelVars>>

Next ==
    \/ BuildAssertFail
    \/ BuildLayer
    \/ BuildLogLayer
    \/ PretrainStep
    \/ PretrainEpochEnd
    \/ PretrainLayerEnd
    \/ FinetuneSetup
    \/ FinetuneEpochBegin
    \/ FinetuneStep
    \/ FinetuneExit
    \/ Report

Spec == Init /\ [][Next]_vars

(* The loops are blocking and sequential: a step that can run does run. *)
FairSpec == Spec /\ WF_vars(Next)

(* ------------------------- label conversion --------------------------- *)

RECURSIVE ScanRow(_, _, _)
(* the loop `for j in range(0, m)` over one row: res[i] starts at 0 and   *)
(* is overwritten by every column j whose entry equals 1                  *)
ScanRow(row, j, acc) ==
    IF j = Len(row) THEN acc
    ELSE ScanRow(row, j + 1, IF row[j + 1] = 1 THEN j ELSE acc)

bin_to_int(m) == [r \in 1..Len(m) |-> ScanRow(m[r], 0, 0)]

LabelMatrices ==
    UNION {[1..n -> [1..m -> {0, 1}]] : n \in 1..MaxRows, m \in 1..MaxCols}

InitLabels ==
    /\ config = [n_layers |-> 0, pre_max_epochs |-> 0, max_epochs |-> 0,
                 n_train_batches |-> 0, n_valid_batches |-> 0]
    /\ pc = "labels"
    /\ mat \in LabelMatrices
    /\ Blank

(* train_set_y = bin_to_int(train_y): no row is ever rejected *)
ConvertLabels ==
    /\ pc = "labels"
    /\ res' = bin_to_int(mat)
    /\ pc' = "labels_done"
    /\ UNCHANGED <<config, dbnVars, store, i, epoch_j, batch_index, ftVars,
                   pretrain_log, validation_log, ft_steps, outVars, mat>>

NextLabels == ConvertLabels

SpecLabels == InitLabels /\ [][NextLabels]_vars

(* ====================================================================== *)
(*                               Claims                                   *)
(* ====================================================================== *)

nTrain == config.n_train_batches

LastCheck(log) == log[Len(log)]

Checked == Len(validation_log') = Len(validation_log) + 1

Stepped == ft_steps' = ft_steps + 1

AfterLoop == pc \in {"report", "done"} /\ raised # "AssertionError"

(* ------------------------------- C1 ----------------------------------- *)

(* a first validation loss was recorded and no later check is below it *)
NeverImprovesAfterFirst ==
    /\ Len(validation_log) >= 1
    /\ validation_log[1].loss.kind = "num"
    /\ \A k \in 2..Len(validation_log) :
           ~Less(validation_log[k].loss, validation_log[1].loss)

C1_Premise ==
    /\ AfterLoop
    /\ nTrain >= 1
    /\ config.max_epochs * nTrain > 4 * nTrain
    /\ NeverImprovesAfterFirst

(* C1 as stated: when the validation loss never improves after the first  *)
(* recorded one (and max_epochs does not bind), training halts at         *)
(* iter = 4 * n_train_batches and best_iter = 0.                          *)
C1_Original ==
    C1_Premise => (done_looping /\ iter = 4 * nTrain /\ best_iter = 0)

(* C1 amended: under the same premise training halts at                   *)
(* iter = 4 * n_train_batches, and best_iter is the iteration of the      *)
(* first validation check, n_train_batches - 1 (0 only for one batch).    *)
C1_Amended ==
    C1_Premise => (done_looping /\ iter = 4 * nTrain /\ best_iter = nTrain - 1)

C1_Witness ==
    /\ C1_Premise
    /\ nTrain = 2
    /\ done_looping
    /\ iter = 8
    /\ best_iter = 1
    /\ Len(validation_log) >= 4

(* ------------------------------- C2 ----------------------------------- *)

C2_Step ==
    /\ patience' >= patience
    /\ pc \in {"ft_while", "ft_for"} =>
         IF Checked /\ LessScaled(LastCheck(validation_log').loss,
                                  best_validation_loss)
         THEN patience' = Max(patience, LastCheck(validation_log').iter * 2)
         ELSE patience' = patience

(* C2: a validation check at iteration t whose loss is below              *)
(* best_validation_loss * 0.995 sets patience to max(patience, 2 * t);    *)
(* every other fine-tuning step leaves patience unchanged; patience never *)
(* decreases.                                                             *)
C2_PatienceRule == [][C2_Step]_vars

(* patience 4 was extended to 6 by the check at iteration 3 < 4 *)
C2_Witness ==
    /\ nTrain = 1
    /\ patience = 6
    /\ iter = 3
    /\ Len(validation_log) = 4
    /\ best_iter = 3

(* ------------------------------- C3 ----------------------------------- *)

C3_Step ==
    Stepped =>
        /\ ft_steps = 0 \/ iter < patience
        /\ done_looping' = (patience' <= iter')

C3_End ==
    pc = "report" =>
        IF done_looping
        THEN patience <= iter /\ ft_steps = iter + 1
        ELSE ft_steps = config.max_epochs * nTrain

(* C3: the stop test iter >= patience is evaluated after every fine-tune  *)
(* step, no fine-tune step runs once it has held, the loop otherwise ends *)
(* after exactly max_epochs * n_train_batches steps, and fine-tuning      *)
(* always terminates.                                                     *)
C3_Terminates ==
    /\ [][C3_Step]_vars
    /\ []C3_End
    /\ <>(pc \in {"report", "done"})

(* an early stop, before the epoch budget is used up *)
C3_Witness ==
    /\ pc = "report"
    /\ done_looping
    /\ patience <= iter
    /\ ft_steps = iter + 1
    /\ ft_steps < config.max_epochs * nTrain

(* ------------------------------- C4 ----------------------------------- *)

PretrainTotal == config.n_layers * config.pre_max_epochs * nTrain

(* the k-th pretraining step of the schedule: layers outermost, then      *)
(* epochs, then minibatches                                               *)
ExpectedStep(k) ==
    <<(k - 1) \div (config.pre_max_epochs * nTrain),
      ((k - 1) \div nTrain) % config.pre_max_epochs,
      (k - 1) % nTrain>>

(* C4: the pretraining steps are exactly layers 0..n_layers-1 in order,   *)
(* pre_max_epochs epochs each, every minibatch index in order in every    *)
(* epoch; all of them precede the first fine-tune step and none follows.  *)
C4_PhaseOrder ==
    /\ Len(pretrain_log) <= PretrainTotal
    /\ \A k \in 1..Len(pretrain_log) : pretrain_log[k] = ExpectedStep(k)
    /\ (pc \in {"ft_while", "ft_for", "report"} \/ ft_steps > 0) =>
           Len(pretrain_log) = PretrainTotal

C4_Witness ==
    /\ pc = "report"
    /\ ft_steps > 0
    /\ config.n_layers = 2
    /\ config.pre_max_epochs = 2
    /\ Len(pretrain_log) = 8

(* ------------------------------- C5 ----------------------------------- *)

C5_Tied ==
    /\ Len(sigmoid_layers) = Len(rbm_layers)
    /\ \A k \in 1..Len(rbm_layers) :
          /\ sigmoid_layers[k].W = rbm_layers[k].W
          /\ sigmoid_layers[k].b = rbm_layers[k].hbias
          /\ store[sigmoid_layers[k].W] = store[rbm_layers[k].W]
          /\ store[sigmoid_layers[k].b] = store[rbm_layers[k].hbias]

C5_Step ==
    Len(pretrain_log') = Len(pretrain_log) + 1 =>
        LET l == LastCheck(pretrain_log')[1] + 1
        IN  /\ store'[sigmoid_layers[l].W] = store[sigmoid_layers[l].W] + 1
            /\ store'[sigmoid_layers[l].b] = store[sigmoid_layers[l].b] + 1

(* C5: HiddenLayer[i] and RBM[i] reference the same weight and hidden-    *)
(* bias cells, so their values agree in every state, and a pretraining    *)
(* update of RBM[i] is at once the value HiddenLayer[i] reads.            *)
C5_ParameterTying == []C5_Tied /\ [][C5_Step]_vars

C5_Witness ==
    /\ pc = "report"
    /\ config.n_layers = 2
    /\ Len(pretrain_log) > 0
    /\ ft_steps > 0
    /\ store[rbm_layers[2].W] > ft_steps
    /\ store[sigmoid_layers[2].W] = store[rbm_layers[2].W]

(* ------------------------------- C6 ----------------------------------- *)

Ones(row) == {j \in 1..Len(row) : row[j] = 1}

Malformed(m) == \E r \in 1..Len(m) : Cardinality(Ones(m[r])) # 1

(* C6: a label matrix with a row holding no 1 or more than one 1 makes    *)
(* the conversion signal an error.                                        *)
C6_MalformedIsError ==
    (pc = "labels_done" /\ Malformed(mat)) => raised # "none"

(* ------------------------------- C7 ----------------------------------- *)

Digit(d) == <<"0", "1", "2", "3", "4", "5", "6", "7", "8", "9">>[d + 1]

(* '{:.2f}' of a loss given in thousandths *)
Format2f(x) ==
    LET h == (x.v + 5) \div 10
    IN  <<Digit(h \div 100), ".", Digit((h \div 10) % 10), Digit(h % 10)>>

(* C7: the returned filename is                                          *)
(* <out_dir>/DBN_weights_<out_file_append>_<best loss, 2 decimals>.hdf5.  *)
C7_FileNameHasLoss ==
    (pc = "done" /\ raised = "none") =>
        \E d \in OutDirs, a \in OutFileAppends :
            ret_fname = <<d, "/", "DBN_weights_", a, "_">>
                        \o Format2f(ret_loss) \o <<".hdf5">>

(* ------------------------------- C8 ----------------------------------- *)

NumChecks == {k \in 1..Len(validation_log) : validation_log[k].loss.kind = "num"}

(* the earliest check among those with the least loss *)
ArgMin(S) ==
    CHOOSE k \in S : \A j \in S :
        \/ validation_log[k].loss.v < validation_log[j].loss.v
        \/ validation_log[k].loss.v = validation_log[j].loss.v /\ k <= j

(* C8 as stated: after every validation check best_validation_loss is the *)
(* minimum of all mean validation losses computed so far and best_iter    *)
(* the iteration of the earliest check that attained it.                  *)
C8_Original ==
    Len(validation_log) > 0 =>
        \E k \in 1..Len(validation_log) :
            /\ validation_log[k].loss = best_validation_loss
            /\ \A j \in 1..Len(validation_log) :
                   /\ ~Less(validation_log[j].loss, best_validation_loss)
                   /\ validation_log[j].loss = best_validation_loss => k <= j
            /\ best_iter = validation_log[k].iter

C8_Record ==
    /\ IF NumChecks = {}
       THEN best_validation_loss = Inf /\ best_iter = Unbound
       ELSE /\ best_validation_loss = validation_log[ArgMin(NumChecks)].loss
            /\ best_iter = validation_log[ArgMin(NumChecks)].iter
    /\ (pc = "done" /\ raised = "none") => ret_loss = best_validation_loss

C8_Step ==
    /\ ~Less(best_validation_loss, best_validation_loss')
    /\ IF Checked /\ Less(LastCheck(validation_log').loss, best_validation_loss)
       THEN /\ best_validation_loss' = LastCheck(validation_log').loss
            /\ best_iter' = LastCheck(validation_log').iter
       ELSE UNCHANGED <<best_validation_loss, best_iter>>

(* C8 amended: best_validation_loss never increases; it is the minimum of *)
(* the validation losses computed so far that are numbers, and best_iter  *)
(* the iteration of the earliest check that attained it; while no check   *)
(* has produced a number (every mean is NaN over an empty validation set) *)
(* they stay +infinity and unassigned; both change together, exactly on a *)
(* strictly lower loss; a run that returns, returns that minimum.         *)
C8_Amended == []C8_Record /\ [][C8_Step]_vars

(* a best below the 0.995 threshold's reach, met again later *)
C8_Witness ==
    /\ best_validation_loss = Num(996)
    /\ \E j, k, l \in 1..Len(validation_log) :
          /\ j < k /\ k < l
          /\ validation_log[j].loss = Num(1000)
          /\ validation_log[k].loss = Num(996)
          /\ validation_log[l].loss = Num(996)
          /\ best_iter = validation_log[k].iter

(* ------------------------------- C9 ----------------------------------- *)

C9_Params ==
    (pc \notin {"build", "labels", "labels_done"} /\ raised # "AssertionError") =>
        /\ Len(params) = 2 * (config.n_layers + 1)
        /\ \A k \in 1..config.n_layers :
              /\ params[2 * k - 1] = sigmoid_layers[k].W
              /\ params[2 * k] = sigmoid_layers[k].b
        /\ params[2 * config.n_layers + 1] = logLayer.W
        /\ params[2 * config.n_layers + 2] = logLayer.b
        /\ \A k \in 1..config.n_layers, q \in 1..Len(params) :
              params[q] # rbm_layers[k].vbias

C9_Step ==
    Stepped =>
        \A k \in 1..Len(rbm_layers) :
            store'[rbm_layers[k].vbias] = store[rbm_layers[k].vbias]

(* C9: DBN.params holds exactly the weight and bias of every hidden layer *)
(* in layer order, then those of the logistic layer: 2 * (n_layers + 1)   *)
(* parameters, no RBM visible bias among them; no fine-tune step updates  *)
(* a visible bias.                                                        *)
C9_ParamsList == []C9_Params /\ [][C9_Step]_vars

C9_Witness ==
    /\ pc = "report"
    /\ config.n_layers = 2
    /\ Len(params) = 6
    /\ ft_steps > 0
    /\ store[rbm_layers[1].vbias] = config.pre_max_epochs * nTrain
    /\ config.pre_max_epochs * nTrain > 0

(* ------------------------------- C10 ---------------------------------- *)

(* C10: every run of train_model reaches its report with best_iter        *)
(* assigned and returns the filename and the best loss.                   *)
C10_AlwaysReports ==
    /\ pc = "report" => best_iter # Unbound
    /\ (pc = "done" /\ config.n_layers > 0) =>
           (raised = "none" /\ ret_fname # <<>>)

====
